---- MODULE Spec2Model ----
(***************************************************************************)
(* Model of the municipality configuration scripts of                      *)
(* querido-diario-workers: the two normalize_name variants, the registry   *)
(* matchers, the config synthesizers, the SIGPub aggregate merge and the   *)
(* SIGPub configuration validator.                                         *)
(*                                                                         *)
(* A municipality name is a sequence of characters.  Characters are        *)
(* tokens: "a" and "A" are a base letter in its two cases, "a_acute" and   *)
(* "A_acute" the precomposed accented letters (U+00E1, U+00C1), "acute"    *)
(* the combining acute accent (U+0301, category Mn, combining class 230),  *)
(* " " the space, "-" the hyphen and "'" the apostrophe.                   *)
(***************************************************************************)
EXTENDS Integers, Sequences, FiniteSets, TLC

VARIABLES
    name,       \* normalizer: the name given to normalize_name
    other,      \* normalizer: a second name, derived from name by edits
    diff,       \* normalizer: the kinds of edit that separate other from name
    stage,      \* normalizer: "input" before the keys are computed, "keyed" after
    variant,    \* normalizer: which normalize_name computed the keys
    key,        \* normalizer: normalize_name(name)
    okey,       \* normalizer: normalize_name(other)
    rekey       \* normalizer: normalize_name(normalize_name(name))

VARIABLES
    am_ibge_file,    \* am-municipios-ibge.json: the Amazonas registry batch
    mt_ibge_file,    \* mt-municipios-ibge.json: the Mato Grosso registry batch
    sigpub_file,     \* src/spiders/configs/sigpub-cities.json: the aggregate
    aam_added_file,  \* aam-cities-added.json: the report of the entries added
    amm_mt_file,     \* src/spiders/configs/amm-mt-cities.json
    runs_on_batch    \* runs of create-aam-config.py since am-municipios-ibge.json last changed

VARIABLES
    municipios_brasil_file, \* municipios-brasil.json: the national registry
    agm_raw_file,           \* agm-municipios-raw.json: the AGM source list
    agm_unmatched,          \* create-agm-config.py: the names it reports as not mapped
    agm_out_file,           \* agm-go-cities.json
    domsc_raw_file,         \* domsc-prefeituras-raw.json: the DOM/SC source list
    domsc_unmatched,        \* create-domsc-config.py: the names it reports as not mapped
    domsc_mapped_file,      \* domsc-municipios-mapped.json
    domsc_out_file,         \* src/spiders/configs/dom-sc-cities.json
    ba_ibge_file,           \* ba-municipios-ibge.json: the Bahia registry
    ba_raw_file,            \* diario-ba-municipios-raw.json: the site's list
    ba_not_found,           \* create-diario-ba-config.py: the names it reports as not found
    ba_out_file             \* src/spiders/configs/diario-ba-cities.json

VARIABLES
    errors,     \* test_sigpub_config.py: the errors it collected
    stats       \* test_sigpub_config.py: the entries counted per state

VARIABLES
    script,     \* a run taken step by step: the script that runs, "none" when none does
    pc,         \* a run: the statement the script is at
    mem,        \* a run: the script's variables, by name
    raised,     \* a run: the exception that ended it, "none" when none did
    written,    \* a run: the output files the run has written so far
    at_start,   \* a run: the output files as they were when the run started
    malformed   \* the input files whose content is not JSON

normVars == <<name, other, diff, stage, variant, key, okey, rekey>>
mergeVars == <<am_ibge_file, mt_ibge_file, sigpub_file, aam_added_file, amm_mt_file,
               runs_on_batch>>
matchVars == <<municipios_brasil_file, agm_raw_file, agm_unmatched, agm_out_file,
               domsc_raw_file, domsc_unmatched, domsc_mapped_file, domsc_out_file,
               ba_ibge_file, ba_raw_file, ba_not_found, ba_out_file>>
validVars == <<errors, stats>>
runVars == <<script, pc, mem, raised, written, at_start, malformed>>
notNormVars == <<mergeVars, matchVars, validVars, runVars>>
notMergeVars == <<normVars, matchVars, validVars, runVars>>
notMatchVars == <<normVars, mergeVars, validVars, runVars>>
vars == <<normVars, mergeVars, matchVars, validVars, runVars>>

(***************************************************************************)
(* Bounds                                                                  *)
(***************************************************************************)
MaxNameLen == 3
MaxBatch == 2
MaxAgg == 2
MaxRuns == 2
MaxReg == 2
MaxSrc == 2

(***************************************************************************)
(* Characters                                                              *)
(***************************************************************************)
Chars == {"a", "A", "a_acute", "acute", " ", "-", "'"}

\* Names of at most n characters.
NamesUpTo(n) == UNION {[1..k -> Chars] : k \in 0..n}

\* unicodedata.normalize('NFD', c) of one character: canonical decomposition.
Decompose(c) ==
    CASE c = "a_acute" -> <<"a", "acute">>
      [] c = "A_acute" -> <<"A", "acute">>
      [] OTHER -> <<c>>

RECURSIVE NFD(_)
NFD(s) == IF s = <<>> THEN <<>> ELSE Decompose(Head(s)) \o NFD(Tail(s))

\* NFKD adds the compatibility decompositions; none of the characters above has one.
NFKD(s) == NFD(s)

\* unicodedata.category(c) == 'Mn'
IsMn(c) == c = "acute"

\* unicodedata.combining(c) != 0
IsCombining(c) == c = "acute"

AsciiLower ==
    <<"a", "b", "c", "d", "e", "f", "g", "h", "i", "j", "k", "l", "m",
      "n", "o", "p", "q", "r", "s", "t", "u", "v", "w", "x", "y", "z">>
AsciiUpper ==
    <<"A", "B", "C", "D", "E", "F", "G", "H", "I", "J", "K", "L", "M",
      "N", "O", "P", "Q", "R", "S", "T", "U", "V", "W", "X", "Y", "Z">>
DigitChars == <<"0", "1", "2", "3", "4", "5", "6", "7", "8", "9">>

Range(f) == {f[i] : i \in DOMAIN f}
IndexIn(table, c) == CHOOSE i \in DOMAIN table : table[i] = c

\* str.upper() and str.lower() of one character
UpperChar(c) ==
    IF c \in Range(AsciiLower) THEN AsciiUpper[IndexIn(AsciiLower, c)]
    ELSE IF c = "a_acute" THEN "A_acute"
    ELSE c

LowerChar(c) ==
    IF c \in Range(AsciiUpper) THEN AsciiLower[IndexIn(AsciiUpper, c)]
    ELSE IF c = "A_acute" THEN "a_acute"
    ELSE c

\* str(n) of a non-negative integer: its decimal digits
RECURSIVE ToStr(_)
ToStr(n) == IF n < 10 THEN <<DigitChars[n + 1]>> ELSE ToStr(n \div 10) \o <<DigitChars[(n % 10) + 1]>>

Upper(s) == [i \in 1..Len(s) |-> UpperChar(s[i])]
Lower(s) == [i \in 1..Len(s) |-> LowerChar(s[i])]

\* \s of the regular expressions, str.isspace()
IsSpace(c) == c = " "

\* the class [A-Z0-9\s]
IsUpperAlnumOrSpace(c) == c \in Range(AsciiUpper) \/ c \in Range(DigitChars) \/ IsSpace(c)

\* str.split(): the maximal runs of non-whitespace characters, in order
RECURSIVE SplitFrom(_, _, _)
SplitFrom(s, word, words) ==
    IF s = <<>>
    THEN IF word = <<>> THEN words ELSE Append(words, word)
    ELSE IF IsSpace(Head(s))
         THEN SplitFrom(Tail(s), <<>>, IF word = <<>> THEN words ELSE Append(words, word))
         ELSE SplitFrom(Tail(s), Append(word, Head(s)), words)

Split(s) == SplitFrom(s, <<>>, <<>>)

\* ' '.join(words)
RECURSIVE Join(_)
Join(words) ==
    IF words = <<>> THEN <<>>
    ELSE IF Len(words) = 1 THEN words[1]
    ELSE words[1] \o <<" ">> \o Join(Tail(words))

\* str.strip(): leading and trailing whitespace removed
RECURSIVE LStrip(_)
LStrip(s) == IF s # <<>> /\ IsSpace(Head(s)) THEN LStrip(Tail(s)) ELSE s

RECURSIVE RStrip(_)
RStrip(s) ==
    IF s # <<>> /\ IsSpace(s[Len(s)]) THEN RStrip(SubSeq(s, 1, Len(s) - 1)) ELSE s

Strip(s) == RStrip(LStrip(s))

\* re.sub(r'\s+', ' ', s): every maximal run of whitespace becomes one space
RECURSIVE CollapseSpaces(_)
CollapseSpaces(s) ==
    IF s = <<>> THEN <<>>
    ELSE IF IsSpace(Head(s))
         THEN <<" ">> \o CollapseSpaces(LStrip(s))
         ELSE <<Head(s)>> \o CollapseSpaces(Tail(s))

(***************************************************************************)
(* normalize_name, punctuation-stripping variant (create-aam-config.py,    *)
(* create-amm-mt-config.py, create-diario-ba-config.py)                    *)
(***************************************************************************)
\* the steps in another order: whitespace collapsed before the punctuation is removed
NormalizeStripCollapseFirst(n) ==
    LET noAccents == SelectSeq(NFD(n), LAMBDA c : ~IsMn(c))
        collapsed == Join(Split(Upper(noAccents)))
    IN  SelectSeq(collapsed, IsUpperAlnumOrSpace)

\* upper-casing left out
NormalizeStripNoUpper(n) ==
    LET noAccents == SelectSeq(NFD(n), LAMBDA c : ~IsMn(c))
        kept      == SelectSeq(noAccents, IsUpperAlnumOrSpace)
    IN  Join(Split(kept))

NormalizeStrip(n) ==
    LET noAccents == SelectSeq(NFD(n), LAMBDA c : ~IsMn(c))
        kept      == SelectSeq(Upper(noAccents), IsUpperAlnumOrSpace)
    IN  Join(Split(kept))

(***************************************************************************)
(* normalize_name, accent-only variant (create-agm-config.py,              *)
(* create-domsc-config.py, fix-domsc-names.py)                             *)
(***************************************************************************)
NormalizeFold(n) ==
    LET noAccents == SelectSeq(NFKD(n), LAMBDA c : ~IsCombining(c))
    IN  CollapseSpaces(Strip(Lower(noAccents)))

Normalize(v, n) == IF v = "strip" THEN NormalizeStrip(n) ELSE NormalizeFold(n)

(***************************************************************************)
(* Files.  A file is absent or holds a JSON document; a script that opens  *)
(* an absent file for reading stops there.                                 *)
(***************************************************************************)
\* A JSON value whose type the scripts look at: a string or a number.
Str(s) == [str |-> s]
Num(n) == [num |-> n]

File(d) == [exists |-> TRUE, data |-> d]
AbsentList == [exists |-> FALSE, data |-> <<>>]
AbsentReport == [exists |-> FALSE, data |-> [total |-> 0, municipalities |-> <<>>]]

NoMergeFiles ==
    /\ am_ibge_file = AbsentList
    /\ mt_ibge_file = AbsentList
    /\ sigpub_file = AbsentList
    /\ aam_added_file = AbsentReport
    /\ amm_mt_file = AbsentReport
    /\ runs_on_batch = 0

NoMatchFiles ==
    /\ municipios_brasil_file = AbsentList
    /\ agm_raw_file = AbsentList
    /\ agm_unmatched = <<>>
    /\ agm_out_file = AbsentList
    /\ domsc_raw_file = AbsentList
    /\ domsc_unmatched = <<>>
    /\ domsc_mapped_file = AbsentList
    /\ domsc_out_file = AbsentList
    /\ ba_ibge_file = AbsentList
    /\ ba_raw_file = [exists |-> FALSE, data |-> [municipalities |-> <<>>]]
    /\ ba_not_found = <<>>
    /\ ba_out_file = AbsentReport

ValidatorIdle ==
    /\ errors = [reported |-> FALSE, list |-> <<>>]
    /\ stats = [reported |-> FALSE, counts |-> [x \in {} |-> x]]

\* the output files of the scripts that are run step by step
OutputFiles ==
    [sigpub |-> sigpub_file, aam_added |-> aam_added_file,
     domsc_mapped |-> domsc_mapped_file, domsc_out |-> domsc_out_file]

NoOutputFiles ==
    [sigpub |-> AbsentList, aam_added |-> AbsentReport,
     domsc_mapped |-> AbsentList, domsc_out |-> AbsentList]

\* no run has been started
RunNotStarted ==
    /\ script = "none"
    /\ pc = "idle"
    /\ mem = [x \in {} |-> x]
    /\ raised = "none"
    /\ written = {}
    /\ at_start = NoOutputFiles

RunIdle ==
    /\ RunNotStarted
    /\ malformed = {}

NormIdle ==
    /\ name = <<>>
    /\ other = <<>>
    /\ diff = {}
    /\ stage = "idle"
    /\ variant = "none"
    /\ key = <<"none">>
    /\ okey = <<"none">>
    /\ rekey = <<"none">>

\* Sequences of at most n elements of S.
SeqsUpTo(S, n) == UNION {[1..k -> S] : k \in 0..n}

(***************************************************************************)
(* The normalizer under test: a name, a second name that differs from it   *)
(* by recorded kinds of edit, and the keys normalize_name gives.           *)
(***************************************************************************)
NoKey == <<"none">>

InitNorm ==
    /\ name \in NamesUpTo(MaxNameLen)
    /\ other = name
    /\ diff = {}
    /\ stage = "input"
    /\ variant = "none"
    /\ key = NoKey
    /\ okey = NoKey
    /\ rekey = NoKey
    /\ NoMergeFiles
    /\ NoMatchFiles
    /\ ValidatorIdle
    /\ RunIdle

\* other gets one letter in the other case
ChangeCase ==
    /\ stage = "input"
    /\ \E i \in 1..Len(other) :
          /\ other[i] \in {"a", "A", "a_acute", "A_acute"}
          /\ other' = [other EXCEPT ![i] =
                          IF UpperChar(@) = @ THEN LowerChar(@) ELSE UpperChar(@)]
    /\ diff' = diff \cup {"case"}
    /\ UNCHANGED <<name, stage, variant, key, okey, rekey, notNormVars>>

\* other gets an accent mark added or removed: a precomposed letter for its base
\* letter (or back), or a combining accent inserted after a letter or deleted
ChangeAccent ==
    /\ stage = "input"
    /\ \E i \in 1..Len(other) :
          \/ /\ other[i] \in {"a", "A", "a_acute", "A_acute"}
             /\ other' = [other EXCEPT ![i] =
                             CASE @ = "a" -> "a_acute"
                               [] @ = "A" -> "A_acute"
                               [] @ = "a_acute" -> "a"
                               [] @ = "A_acute" -> "A"]
          \/ /\ other[i] \in {"a", "A"}
             /\ Len(other) < MaxNameLen
             /\ other' = SubSeq(other, 1, i) \o <<"acute">> \o SubSeq(other, i + 1, Len(other))
          \/ /\ other[i] = "acute"
             /\ other' = SubSeq(other, 1, i - 1) \o SubSeq(other, i + 1, Len(other))
    /\ diff' = diff \cup {"accent"}
    /\ UNCHANGED <<name, stage, variant, key, okey, rekey, notNormVars>>

\* other gets a space where it has a hyphen or an apostrophe
PunctToSpace ==
    /\ stage = "input"
    /\ \E i \in 1..Len(other) :
          /\ other[i] \in {"-", "'"}
          /\ other' = [other EXCEPT ![i] = " "]
    /\ diff' = diff \cup {"punct"}
    /\ UNCHANGED <<name, stage, variant, key, okey, rekey, notNormVars>>

\* normalize_name is applied to both names, and to its own result
ApplyNormalize ==
    /\ stage = "input"
    /\ \E v \in {"strip", "fold"} :
          /\ variant' = v
          /\ key' = Normalize(v, name)
          /\ okey' = Normalize(v, other)
          /\ rekey' = Normalize(v, Normalize(v, name))
    /\ stage' = "keyed"
    /\ UNCHANGED <<name, other, diff, notNormVars>>

NextNorm == ChangeCase \/ ChangeAccent \/ PunctToSpace \/ ApplyNormalize

SpecNorm == InitNorm /\ [][NextNorm]_vars

(***************************************************************************)
(* The registry batches and the aggregate the merge scripts read           *)
(***************************************************************************)
AmIds == {1300029, 1300060}
MtIds == {5100102, 5100201}

\* the registry's name of a municipality
NomeOf(id) ==
    CASE id = 1300029 -> <<"A", "a">>
      [] id = 1300060 -> <<"A", "-", "a">>
      [] id = 5100102 -> <<"A_acute", "a">>
      [] id = 5100201 -> <<"A", " ", "a">>
      [] OTHER -> <<"A">>

\* a record of am-municipios-ibge.json / mt-municipios-ibge.json
IbgeRecord(id) == [id |-> id, nome |-> NomeOf(id)]

\* an entry already in sigpub-cities.json
SigpubEntry(state, lower, id, url) ==
    [id |-> lower \o <<"_">> \o ToStr(id),
     name |-> NomeOf(id),
     stateCode |-> state,
     territoryId |-> Str(ToStr(id)),
     spiderType |-> "sigpub",
     startDate |-> "2009-01-01",
     config |-> [type |-> "sigpub", url |-> url, entityId |-> "365"]]

ExistingEntries ==
    {SigpubEntry("AM", <<"a", "m">>, i, "https://www.diariomunicipal.com.br/aam/") : i \in AmIds}
    \cup {SigpubEntry("MT", <<"m", "t">>, 5100102, "https://www.diariomunicipal.com.br/amm-mt/"),
          SigpubEntry("PE", <<"p", "e">>, 2600054, "https://www.diariomunicipal.com.br/amupe/")}

\* no two entries share stateCode and territoryId
CoverageExclusive(agg) ==
    \A i, j \in 1..Len(agg) :
        (agg[i].stateCode = agg[j].stateCode /\ agg[i].territoryId = agg[j].territoryId)
            => i = j

Aggregates == {a \in SeqsUpTo(ExistingEntries, MaxAgg) : CoverageExclusive(a)}

Batches(ids) == SeqsUpTo({IbgeRecord(i) : i \in ids}, MaxBatch)

\* dict.get(field): None when the key is missing
Get(config, field) == IF field \in DOMAIN config THEN config[field] ELSE "None"

(***************************************************************************)
(* create-aam-config.py                                                    *)
(***************************************************************************)
\* the entries' id collected in place of their territoryId
ExistingIdsById(sigpub_data, state) ==
    {sigpub_data[i].id :
        i \in {j \in 1..Len(sigpub_data) : Get(sigpub_data[j], "stateCode") = state}}

\* the territoryId of the entries of the aggregate whose stateCode is state
ExistingIds(sigpub_data, state) ==
    {sigpub_data[i].territoryId :
        i \in {j \in 1..Len(sigpub_data) : Get(sigpub_data[j], "stateCode") = state}}

\* the config written without its entityId while the value is not known
AamConfigNoEntityId(mun) ==
    [id |-> <<"a", "m", "_">> \o ToStr(mun.id),
     name |-> mun.nome,
     stateCode |-> "AM",
     territoryId |-> Str(ToStr(mun.id)),
     spiderType |-> "sigpub",
     config |-> [type |-> "sigpub",
                 url |-> "https://www.diariomunicipal.com.br/aam/"]]

AamConfig(mun) ==
    [id |-> <<"a", "m", "_">> \o ToStr(mun.id),
     name |-> mun.nome,
     stateCode |-> "AM",
     territoryId |-> Str(ToStr(mun.id)),
     spiderType |-> "sigpub",
     config |-> [type |-> "sigpub",
                 url |-> "https://www.diariomunicipal.com.br/aam/",
                 entityId |-> "0"]]

\* the loop over ibge_data: a municipality whose territory id is in
\* existing_am_ids is skipped, any other gets a config appended to new_configs
RECURSIVE AamNewConfigs(_, _, _)
AamNewConfigs(ibge_data, existing_am_ids, new_configs) ==
    IF ibge_data = <<>> THEN new_configs
    ELSE LET mun == Head(ibge_data)
             territory_id == Str(ToStr(mun.id))
         IN  IF territory_id \in existing_am_ids
             THEN AamNewConfigs(Tail(ibge_data), existing_am_ids, new_configs)
             ELSE AamNewConfigs(Tail(ibge_data), existing_am_ids,
                                Append(new_configs, AamConfig(mun)))

\* the new entries put in front of the aggregate
ExtendFront(sigpub_data, new_configs) == new_configs \o sigpub_data

\* sigpub_data.extend(new_configs)
Extend(sigpub_data, new_configs) == sigpub_data \o new_configs

\* every key the script reads is there
AamInputsWellFormed ==
    /\ \A i \in 1..Len(sigpub_file.data) :
          Get(sigpub_file.data[i], "stateCode") = "AM"
              => "territoryId" \in DOMAIN sigpub_file.data[i]
    /\ \A i \in 1..Len(am_ibge_file.data) :
          {"id", "nome"} \subseteq DOMAIN am_ibge_file.data[i]

RunAam ==
    /\ am_ibge_file.exists
    /\ sigpub_file.exists
    /\ AamInputsWellFormed
    /\ runs_on_batch < MaxRuns
    /\ LET new_configs == AamNewConfigs(am_ibge_file.data,
                                        ExistingIds(sigpub_file.data, "AM"), <<>>)
       IN  /\ sigpub_file' = File(Extend(sigpub_file.data, new_configs))
           /\ aam_added_file' = File([total |-> Len(new_configs),
                                      municipalities |-> new_configs])
    /\ runs_on_batch' = runs_on_batch + 1
    /\ UNCHANGED <<am_ibge_file, mt_ibge_file, amm_mt_file, notMergeVars>>

\* am-municipios-ibge.json is replaced by another batch of the registry
NewAmRegistry ==
    /\ am_ibge_file.exists
    /\ \E b \in Batches(AmIds) : am_ibge_file' = File(b)
    /\ am_ibge_file' # am_ibge_file
    /\ runs_on_batch' = 0
    /\ UNCHANGED <<mt_ibge_file, sigpub_file, aam_added_file, amm_mt_file, notMergeVars>>

(***************************************************************************)
(* create-amm-mt-config.py                                                 *)
(***************************************************************************)
\* the name as the site spells it: upper case, accents removed
AmmCityName(nome) == SelectSeq(NFD(Upper(nome)), LAMBDA c : ~IsMn(c))

AmmMtConfig(mun) ==
    [id |-> <<"m", "t", "_">> \o ToStr(mun.id),
     name |-> mun.nome,
     stateCode |-> "MT",
     territoryId |-> Str(ToStr(mun.id)),
     spiderType |-> "amm-mt",
     config |-> [url |-> "https://amm.diariomunicipal.org/",
                 cityName |-> AmmCityName(mun.nome)]]

RECURSIVE AmmMtConfigs(_, _, _)
AmmMtConfigs(ibge_data, sigpub_mt_ids, configs) ==
    IF ibge_data = <<>> THEN configs
    ELSE LET mun == Head(ibge_data)
             territory_id == Str(ToStr(mun.id))
         IN  IF territory_id \in sigpub_mt_ids
             THEN AmmMtConfigs(Tail(ibge_data), sigpub_mt_ids, configs)
             ELSE AmmMtConfigs(Tail(ibge_data), sigpub_mt_ids,
                               Append(configs, AmmMtConfig(mun)))

AmmMtInputsWellFormed ==
    /\ \A i \in 1..Len(sigpub_file.data) :
          Get(sigpub_file.data[i], "stateCode") = "MT"
              => "territoryId" \in DOMAIN sigpub_file.data[i]
    /\ \A i \in 1..Len(mt_ibge_file.data) :
          {"id", "nome"} \subseteq DOMAIN mt_ibge_file.data[i]

RunAmmMt ==
    /\ mt_ibge_file.exists
    /\ sigpub_file.exists
    /\ AmmMtInputsWellFormed
    /\ LET configs == AmmMtConfigs(mt_ibge_file.data,
                                   ExistingIds(sigpub_file.data, "MT"), <<>>)
       IN  amm_mt_file' = File([total |-> Len(configs), municipalities |-> configs])
    /\ UNCHANGED <<am_ibge_file, mt_ibge_file, sigpub_file, aam_added_file,
                   runs_on_batch, notMergeVars>>

\* the Amazonas registry batch and the aggregate are on disk
InitAam ==
    /\ am_ibge_file \in {File(b) : b \in Batches(AmIds)}
    /\ sigpub_file \in {File(a) : a \in Aggregates}
    /\ mt_ibge_file = AbsentList
    /\ aam_added_file = AbsentReport
    /\ amm_mt_file = AbsentReport
    /\ runs_on_batch = 0
    /\ NormIdle
    /\ NoMatchFiles
    /\ ValidatorIdle
    /\ RunIdle

\* the Mato Grosso registry batch and the aggregate are on disk
InitAmmMt ==
    /\ mt_ibge_file \in {File(b) : b \in Batches(MtIds)}
    /\ sigpub_file \in {File(a) : a \in Aggregates}
    /\ am_ibge_file = AbsentList
    /\ aam_added_file = AbsentReport
    /\ amm_mt_file = AbsentReport
    /\ runs_on_batch = 0
    /\ NormIdle
    /\ NoMatchFiles
    /\ ValidatorIdle
    /\ RunIdle

InitMerge == InitAam \/ InitAmmMt

NextMerge == RunAam \/ NewAmRegistry \/ RunAmmMt

SpecMerge == InitMerge /\ [][NextMerge]_vars

(***************************************************************************)
(* The registries and source lists the matching scripts read               *)
(***************************************************************************)
\* the names a registry gives, and the names a site lists
RegistryNames == {<<"A_acute", "a">>, <<"A", "-", "a">>}
SourceNames == {<<"A", "a">>, <<"A", "-", "a">>, <<"A", " ", "a">>}
SourceValues == {"1", "2"}

\* a record of municipios-brasil.json
Municipio(codigo, nome, uf) ==
    [codigo_ibge |-> codigo, nome |-> nome, codigo_uf |-> uf,
     latitude |-> 0, longitude |-> 0]

\* national registries: municipalities of the state uf and one of another state
NationalRegistries(codes, uf, otherCode, otherUf) ==
    SeqsUpTo({Municipio(c, n, uf) : c \in codes, n \in RegistryNames}
             \cup {Municipio(otherCode, <<"A_acute", "a">>, otherUf)}, MaxReg)

GoCodes == {5200050, 5200100}
ScCodes == {4200051, 4200101}
BaIds == {2900108, 2900207}

\* dict[key] = value
DictPut(dict, k, v) == [x \in DOMAIN dict \cup {k} |-> IF x = k THEN v ELSE dict[x]]

EmptyDict == [x \in {} |-> x]

\* the Unicode code point of a character: the order in which Python compares strings
CodePoint(c) ==
    CASE c = " " -> 32
      [] c = "'" -> 39
      [] c = "-" -> 45
      [] c = "A" -> 65
      [] c = "a" -> 97
      [] c = "A_acute" -> 193
      [] c = "a_acute" -> 225
      [] c = "acute" -> 769
      [] OTHER -> 0

\* a < b for two strings
RECURSIVE StrLess(_, _)
StrLess(a, b) ==
    IF b = <<>> THEN FALSE
    ELSE IF a = <<>> THEN TRUE
    ELSE IF CodePoint(Head(a)) # CodePoint(Head(b))
         THEN CodePoint(Head(a)) < CodePoint(Head(b))
         ELSE StrLess(Tail(a), Tail(b))

\* sorted(list, key=...) on <<key, item>> pairs: stable, a pair goes after
\* those whose key is not greater
RECURSIVE InsertByKey(_, _)
InsertByKey(x, sorted) ==
    IF sorted = <<>> THEN <<x>>
    ELSE IF StrLess(x[1], Head(sorted)[1])
         THEN <<x>> \o sorted
         ELSE <<Head(sorted)>> \o InsertByKey(x, Tail(sorted))

RECURSIVE SortedFrom(_, _)
SortedFrom(list, sorted) ==
    IF list = <<>> THEN sorted
    ELSE SortedFrom(Tail(list), InsertByKey(Head(list), sorted))

\* sorted(matched, key=lambda x: x['nome_ibge'])
SortedByNomeIbge(matched) ==
    LET keyed == [i \in 1..Len(matched) |-> <<matched[i].nome_ibge, matched[i]>>]
        ordered == SortedFrom(keyed, <<>>)
    IN  [i \in 1..Len(ordered) |-> ordered[i][2]]

\* [m for m in municipios_brasil if m['codigo_uf'] == uf]
OfState(municipios_brasil, uf) == SelectSeq(municipios_brasil, LAMBDA m : m.codigo_uf = uf)

\* the dictionary from the normalized name to the registry record: a later
\* record with the same key replaces an earlier one
RECURSIVE IndexByNormFold(_, _)
IndexByNormFold(municipios, dict) ==
    IF municipios = <<>> THEN dict
    ELSE IndexByNormFold(Tail(municipios),
                         DictPut(dict, NormalizeFold(Head(municipios).nome), Head(municipios)))

(***************************************************************************)
(* create-agm-config.py                                                    *)
(***************************************************************************)
\* the normalized name, not the name as listed, put in unmatched
RECURSIVE AgmMatchKeyReported(_, _, _, _)
AgmMatchKeyReported(municipios_agm, municipios_go_dict, matched, unmatched) ==
    IF municipios_agm = <<>> THEN [matched |-> matched, unmatched |-> unmatched]
    ELSE LET m_agm == Head(municipios_agm)
             nome_norm == NormalizeFold(m_agm.nome)
         IN  IF nome_norm \in DOMAIN municipios_go_dict
             THEN LET m_ibge == municipios_go_dict[nome_norm]
                  IN  AgmMatchKeyReported(Tail(municipios_agm), municipios_go_dict,
                               Append(matched, [nome_agm |-> m_agm.nome,
                                                nome_ibge |-> m_ibge.nome,
                                                codigo_ibge |-> m_ibge.codigo_ibge,
                                                value |-> m_agm.value]),
                               unmatched)
             ELSE AgmMatchKeyReported(Tail(municipios_agm), municipios_go_dict, matched,
                           Append(unmatched, nome_norm))

\* the loop over the AGM list: an entry whose normalized name is a key of the
\* dictionary is matched, any other has its name put in unmatched
RECURSIVE AgmMatch(_, _, _, _)
AgmMatch(municipios_agm, municipios_go_dict, matched, unmatched) ==
    IF municipios_agm = <<>> THEN [matched |-> matched, unmatched |-> unmatched]
    ELSE LET m_agm == Head(municipios_agm)
             nome_norm == NormalizeFold(m_agm.nome)
         IN  IF nome_norm \in DOMAIN municipios_go_dict
             THEN LET m_ibge == municipios_go_dict[nome_norm]
                  IN  AgmMatch(Tail(municipios_agm), municipios_go_dict,
                               Append(matched, [nome_agm |-> m_agm.nome,
                                                nome_ibge |-> m_ibge.nome,
                                                codigo_ibge |-> m_ibge.codigo_ibge,
                                                value |-> m_agm.value]),
                               unmatched)
             ELSE AgmMatch(Tail(municipios_agm), municipios_go_dict, matched,
                           Append(unmatched, m_agm.nome))

AgmConfig(m) ==
    [id |-> <<"g", "o", "_">> \o ToStr(m.codigo_ibge),
     name |-> m.nome_ibge,
     stateCode |-> "GO",
     territoryId |-> Str(ToStr(m.codigo_ibge)),
     spiderType |-> "sigpub",
     config |-> [url |-> "https://www.diariomunicipal.com.br/agm/",
                 entityId |-> m.value]]

AgmSigpubConfig(matched) ==
    LET ordered == SortedByNomeIbge(matched)
    IN  [i \in 1..Len(ordered) |-> AgmConfig(ordered[i])]

RunAgm ==
    /\ municipios_brasil_file.exists
    /\ agm_raw_file.exists
    /\ LET municipios_go == OfState(municipios_brasil_file.data, 52)
           municipios_go_dict == IndexByNormFold(municipios_go, EmptyDict)
           report == AgmMatch(agm_raw_file.data, municipios_go_dict, <<>>, <<>>)
       IN  /\ agm_unmatched' = report.unmatched
           /\ agm_out_file' = File(AgmSigpubConfig(report.matched))
    /\ UNCHANGED <<municipios_brasil_file, agm_raw_file, domsc_raw_file, domsc_unmatched,
                   domsc_mapped_file, domsc_out_file, ba_ibge_file, ba_raw_file,
                   ba_not_found, ba_out_file, notMatchVars>>

(***************************************************************************)
(* create-domsc-config.py                                                  *)
(***************************************************************************)
RECURSIVE DomscMatch(_, _, _, _)
DomscMatch(prefeituras_domsc, municipios_sc_dict, matched, unmatched) ==
    IF prefeituras_domsc = <<>> THEN [matched |-> matched, unmatched |-> unmatched]
    ELSE LET pref == Head(prefeituras_domsc)
             nome_norm == NormalizeFold(pref)
         IN  IF nome_norm \in DOMAIN municipios_sc_dict
             THEN LET m == municipios_sc_dict[nome_norm]
                  IN  DomscMatch(Tail(prefeituras_domsc), municipios_sc_dict,
                                 Append(matched, [nome_domsc |-> pref,
                                                  nome_ibge |-> m.nome,
                                                  codigo_ibge |-> m.codigo_ibge,
                                                  latitude |-> m.latitude,
                                                  longitude |-> m.longitude]),
                                 unmatched)
             ELSE DomscMatch(Tail(prefeituras_domsc), municipios_sc_dict, matched,
                             Append(unmatched, pref))

DomscConfigEntry(m) ==
    [id |-> <<"s", "c", "_">> \o ToStr(m.codigo_ibge),
     name |-> m.nome_ibge,
     stateCode |-> "SC",
     territoryId |-> Str(ToStr(m.codigo_ibge)),
     spiderType |-> "dom-sc",
     config |-> [url |-> "https://diariomunicipal.sc.gov.br/",
                 entityName |-> m.nome_domsc]]

DomscConfig(matched) ==
    LET ordered == SortedByNomeIbge(matched)
    IN  [i \in 1..Len(ordered) |-> DomscConfigEntry(ordered[i])]

RunDomsc ==
    /\ municipios_brasil_file.exists
    /\ domsc_raw_file.exists
    /\ LET municipios_sc == OfState(municipios_brasil_file.data, 42)
           municipios_sc_dict == IndexByNormFold(municipios_sc, EmptyDict)
           report == DomscMatch(domsc_raw_file.data, municipios_sc_dict, <<>>, <<>>)
       IN  /\ domsc_unmatched' = report.unmatched
           /\ domsc_mapped_file' = File(report.matched)
           /\ domsc_out_file' = File(DomscConfig(report.matched))
    /\ UNCHANGED <<municipios_brasil_file, agm_raw_file, agm_unmatched, agm_out_file,
                   domsc_raw_file, ba_ibge_file, ba_raw_file, ba_not_found, ba_out_file,
                   notMatchVars>>

(***************************************************************************)
(* fix-domsc-names.py                                                      *)
(***************************************************************************)
\* "Prefeitura Municipal de "
PrefeituraMunicipalDe ==
    <<"P", "r", "e", "f", "e", "i", "t", "u", "r", "a", " ",
      "M", "u", "n", "i", "c", "i", "p", "a", "l", " ", "d", "e", " ">>

FixDomscConfigEntry(m) ==
    [id |-> <<"s", "c", "_">> \o ToStr(m.codigo_ibge),
     name |-> m.nome,
     stateCode |-> "SC",
     territoryId |-> Str(ToStr(m.codigo_ibge)),
     spiderType |-> "dom-sc",
     config |-> [url |-> "https://diariomunicipal.sc.gov.br/",
                 entityName |-> PrefeituraMunicipalDe \o m.nome]]

\* sorted(municipios_sc, key=lambda x: x['nome'])
SortedByNome(municipios) ==
    LET keyed == [i \in 1..Len(municipios) |-> <<municipios[i].nome, municipios[i]>>]
        ordered == SortedFrom(keyed, <<>>)
    IN  [i \in 1..Len(ordered) |-> ordered[i][2]]

RunFixDomsc ==
    /\ municipios_brasil_file.exists
    /\ LET ordered == SortedByNome(OfState(municipios_brasil_file.data, 42))
       IN  domsc_out_file' = File([i \in 1..Len(ordered) |-> FixDomscConfigEntry(ordered[i])])
    /\ UNCHANGED <<municipios_brasil_file, agm_raw_file, agm_unmatched, agm_out_file,
                   domsc_raw_file, domsc_unmatched, domsc_mapped_file, ba_ibge_file,
                   ba_raw_file, ba_not_found, ba_out_file, notMatchVars>>

(***************************************************************************)
(* create-diario-ba-config.py                                              *)
(***************************************************************************)
RECURSIVE IndexByNormStrip(_, _)
IndexByNormStrip(ibge_data, ibge_map) ==
    IF ibge_data = <<>> THEN ibge_map
    ELSE LET mun == Head(ibge_data)
         IN  IndexByNormStrip(Tail(ibge_data),
                              DictPut(ibge_map, NormalizeStrip(mun.nome),
                                      [id |-> mun.id, nome |-> mun.nome]))

BaConfig(ibge_info, mun) ==
    [id |-> <<"b", "a", "_">> \o ToStr(ibge_info.id),
     name |-> ibge_info.nome,
     stateCode |-> "BA",
     territoryId |-> Str(ToStr(ibge_info.id)),
     spiderType |-> "diario-ba",
     config |-> [url |-> "https://www.diariooficialba.com.br/",
                 cityName |-> mun.value]]

\* the loop over the site's list: an entry whose normalized text is a key of
\* ibge_map gets a config, any other has its text put in not_found
RECURSIVE BaMatch(_, _, _, _)
BaMatch(municipalities, ibge_map, configs, not_found) ==
    IF municipalities = <<>> THEN [configs |-> configs, not_found |-> not_found]
    ELSE LET mun == Head(municipalities)
             site_name == mun.text
             normalized == NormalizeStrip(site_name)
         IN  IF normalized \in DOMAIN ibge_map
             THEN BaMatch(Tail(municipalities), ibge_map,
                          Append(configs, BaConfig(ibge_map[normalized], mun)), not_found)
             ELSE BaMatch(Tail(municipalities), ibge_map, configs,
                          Append(not_found, site_name))

RunDiarioBa ==
    /\ ba_ibge_file.exists
    /\ ba_raw_file.exists
    /\ LET ibge_map == IndexByNormStrip(ba_ibge_file.data, EmptyDict)
           report == BaMatch(ba_raw_file.data.municipalities, ibge_map, <<>>, <<>>)
       IN  /\ ba_not_found' = report.not_found
           /\ ba_out_file' = File([total |-> Len(report.configs),
                                   municipalities |-> report.configs])
    /\ UNCHANGED <<municipios_brasil_file, agm_raw_file, agm_unmatched, agm_out_file,
                   domsc_raw_file, domsc_unmatched, domsc_mapped_file, domsc_out_file,
                   ba_ibge_file, ba_raw_file, notMatchVars>>

(***************************************************************************)
(* The files on disk when a matching script starts                         *)
(***************************************************************************)
NoAgmFiles ==
    /\ agm_raw_file = AbsentList
    /\ agm_unmatched = <<>>
    /\ agm_out_file = AbsentList

NoDomscFiles ==
    /\ domsc_raw_file = AbsentList
    /\ domsc_unmatched = <<>>
    /\ domsc_mapped_file = AbsentList
    /\ domsc_out_file = AbsentList

NoBaFiles ==
    /\ ba_ibge_file = AbsentList
    /\ ba_raw_file = [exists |-> FALSE, data |-> [municipalities |-> <<>>]]
    /\ ba_not_found = <<>>
    /\ ba_out_file = AbsentReport

\* the national registry and the AGM list are on disk
InitAgm ==
    /\ municipios_brasil_file \in
          {File(r) : r \in NationalRegistries(GoCodes, 52, 4200051, 42)}
    /\ agm_raw_file \in
          {File(l) : l \in SeqsUpTo([nome : SourceNames, value : SourceValues], MaxSrc)}
    /\ agm_unmatched = <<>>
    /\ agm_out_file = AbsentList
    /\ NoDomscFiles
    /\ NoBaFiles
    /\ NormIdle
    /\ NoMergeFiles
    /\ ValidatorIdle
    /\ RunIdle

\* the national registry and the DOM/SC list are on disk
InitDomsc ==
    /\ municipios_brasil_file \in
          {File(r) : r \in NationalRegistries(ScCodes, 42, 5200050, 52)}
    /\ domsc_raw_file \in {File(l) : l \in SeqsUpTo(SourceNames, MaxSrc)}
    /\ domsc_unmatched = <<>>
    /\ domsc_mapped_file = AbsentList
    /\ domsc_out_file = AbsentList
    /\ NoAgmFiles
    /\ NoBaFiles
    /\ NormIdle
    /\ NoMergeFiles
    /\ ValidatorIdle
    /\ RunIdle

\* the Bahia registry and the site's list are on disk
InitDiarioBa ==
    /\ ba_ibge_file \in
          {File(r) : r \in SeqsUpTo([id : BaIds, nome : RegistryNames], MaxReg)}
    /\ ba_raw_file \in
          {File([municipalities |-> l]) :
              l \in SeqsUpTo([text : SourceNames, value : SourceValues], MaxSrc)}
    /\ ba_not_found = <<>>
    /\ ba_out_file = AbsentReport
    /\ municipios_brasil_file = AbsentList
    /\ NoAgmFiles
    /\ NoDomscFiles
    /\ NormIdle
    /\ NoMergeFiles
    /\ ValidatorIdle
    /\ RunIdle

InitMatch == InitAgm \/ InitDomsc \/ InitDiarioBa

NextMatch == RunAgm \/ RunDomsc \/ RunFixDomsc \/ RunDiarioBa

SpecMatch == InitMatch /\ [][NextMatch]_vars

(***************************************************************************)
(* test_sigpub_config.py                                                   *)
(***************************************************************************)
required_fields == <<"id", "name", "territoryId", "spiderType", "startDate", "config">>

\* isinstance(v, str) and len(v) of a JSON value
IsStr(v) == "str" \in DOMAIN v
StrLen(v) == Len(v.str)

\* for field in required_fields: one error per field that is not in config
RECURSIVE MissingFields(_, _, _)
MissingFields(idx, config, fields) ==
    IF fields = <<>> THEN <<>>
    ELSE (IF Head(fields) \notin DOMAIN config
          THEN <<[idx |-> idx, kind |-> "campo ausente", field |-> Head(fields)]>>
          ELSE <<>>)
         \o MissingFields(idx, config, Tail(fields))

\* the territoryId check, made whether or not the field is there
TerritoryIdErrorsUnguarded(idx, config) ==
    IF "territoryId" \notin DOMAIN config
       \/ ~IsStr(config.territoryId) \/ StrLen(config.territoryId) # 7
    THEN <<[idx |-> idx, kind |-> "territoryId invalido", field |-> "territoryId"]>>
    ELSE <<>>

\* the territoryId check: a string of length 7
TerritoryIdErrors(idx, config) ==
    IF "territoryId" \in DOMAIN config
       /\ (~IsStr(config.territoryId) \/ StrLen(config.territoryId) # 7)
    THEN <<[idx |-> idx, kind |-> "territoryId invalido", field |-> "territoryId",
            id |-> IF "id" \in DOMAIN config THEN config.id ELSE <<"u", "n", "k", "n", "o", "w", "n">>,
            value |-> config.territoryId]>>
    ELSE <<>>

SpiderTypeErrors(idx, config) ==
    IF Get(config, "spiderType") # "sigpub"
    THEN <<[idx |-> idx, kind |-> "spiderType deve ser sigpub", field |-> "spiderType",
            found |-> Get(config, "spiderType")]>>
    ELSE <<>>

ConfigTypeErrors(idx, config) ==
    IF "config" \in DOMAIN config /\ Get(config.config, "type") # "sigpub"
    THEN <<[idx |-> idx, kind |-> "config.type deve ser sigpub", field |-> "config.type"]>>
    ELSE <<>>

ConfigUrlErrors(idx, config) ==
    IF "config" \in DOMAIN config /\ "url" \notin DOMAIN config.config
    THEN <<[idx |-> idx, kind |-> "config.url ausente", field |-> "config.url"]>>
    ELSE <<>>

\* the errors of one entry, in the order the checks are made
EntryErrors(idx, config) ==
    MissingFields(idx, config, required_fields)
    \o TerritoryIdErrors(idx, config)
    \o SpiderTypeErrors(idx, config)
    \o ConfigTypeErrors(idx, config)
    \o ConfigUrlErrors(idx, config)

\* for idx, config in enumerate(configs): idx counts from 0
RECURSIVE ValidateFrom(_, _, _)
ValidateFrom(configs, idx, errs) ==
    IF configs = <<>> THEN errs
    ELSE ValidateFrom(Tail(configs), idx + 1, errs \o EntryErrors(idx, Head(configs)))

Validate(configs) == ValidateFrom(configs, 0, <<>>)

\* config['id'].split('_')[0]
RECURSIVE BeforeSeparator(_, _)
BeforeSeparator(s, sep) ==
    IF s = <<>> \/ Head(s) = sep THEN <<>>
    ELSE <<Head(s)>> \o BeforeSeparator(Tail(s), sep)

\* stats[state] = stats.get(state, 0) + 1
RECURSIVE StateStats(_, _)
StateStats(configs, counts) ==
    IF configs = <<>> THEN counts
    ELSE LET state == Upper(BeforeSeparator(Head(configs).id, "_"))
         IN  StateStats(Tail(configs),
                        DictPut(counts, state,
                                IF state \in DOMAIN counts THEN counts[state] + 1 ELSE 1))

\* the errors are reported, then the statistics; the statistics stop at an
\* entry without id
RunValidator ==
    /\ sigpub_file.exists
    /\ errors' = [reported |-> TRUE, list |-> Validate(sigpub_file.data)]
    /\ stats' = IF \A c \in Range(sigpub_file.data) : "id" \in DOMAIN c
                THEN [reported |-> TRUE, counts |-> StateStats(sigpub_file.data, EmptyDict)]
                ELSE [reported |-> FALSE, counts |-> EmptyDict]
    /\ UNCHANGED <<normVars, mergeVars, matchVars, runVars>>

\* the entries of the aggregates given to the validator: a complete SIGPub
\* entry, an entry as create-aam-config.py writes it, and entries with one
\* field missing or one value wrong
Without(config, field) == [f \in DOMAIN config \ {field} |-> config[f]]

CompleteEntry == SigpubEntry("AM", <<"a", "m">>, 1300029, "https://www.diariomunicipal.com.br/aam/")

ValidatorEntries ==
    {CompleteEntry, AamConfig(IbgeRecord(1300060))}
    \cup {Without(CompleteEntry, f) : f \in Range(required_fields)}
    \cup {Without(Without(CompleteEntry, "territoryId"), "startDate"),
          [CompleteEntry EXCEPT !.territoryId = Str(<<"1", "3", "0", "0", "0", "2">>)],
          [CompleteEntry EXCEPT !.territoryId = Str(<<"1", "3", "0", "0", "0", "A", "9">>)],
          [CompleteEntry EXCEPT !.territoryId = Str(<<"1", "3", "0", "0", "0", "2", "9", "0">>)],
          [CompleteEntry EXCEPT !.territoryId = Num(1300029)],
          [CompleteEntry EXCEPT !.spiderType = "dom-sc"],
          [CompleteEntry EXCEPT !.config = Without(@, "url")],
          [CompleteEntry EXCEPT !.config = Without(@, "type")]}

\* the aggregate is on disk
InitValidate ==
    /\ sigpub_file \in {File(a) : a \in SeqsUpTo(ValidatorEntries, MaxAgg)}
    /\ am_ibge_file = AbsentList
    /\ mt_ibge_file = AbsentList
    /\ aam_added_file = AbsentReport
    /\ amm_mt_file = AbsentReport
    /\ runs_on_batch = 0
    /\ NormIdle
    /\ NoMatchFiles
    /\ ValidatorIdle
    /\ RunIdle

NextValidate == RunValidator

SpecValidate == InitValidate /\ [][NextValidate]_vars

(***************************************************************************)
(* All the scripts that write configuration entries                        *)
(***************************************************************************)
InitScripts == InitMerge \/ InitMatch

NextScripts == NextMerge \/ NextMatch

SpecScripts == InitScripts /\ [][NextScripts]_vars

(***************************************************************************)
(* A run of create-aam-config.py or of create-domsc-config.py taken        *)
(* statement by statement.  An exception ends the run at the statement     *)
(* that raises it; what was written before stays on disk.                  *)
(***************************************************************************)
\* with open(...) as f: json.load(f): the exception it raises, "none" when it loads
LoadRaises(file, fname) ==
    IF ~file.exists THEN "FileNotFoundError"
    ELSE IF fname \in malformed THEN "JSONDecodeError"
    ELSE "none"

\* the script is started: python runs the module body from its first statement
Start(s, first) ==
    /\ pc \in {"idle", "done", "failed"}
    /\ script' = s
    /\ pc' = first
    /\ mem' = EmptyDict
    /\ raised' = "none"
    /\ written' = {}
    /\ at_start' = OutputFiles
    /\ UNCHANGED <<malformed, normVars, mergeVars, matchVars, validVars>>

\* the statement raises: the run ends there
Raise(exception) ==
    /\ pc' = "failed"
    /\ raised' = exception
    /\ UNCHANGED <<script, mem, written, at_start, malformed>>

\* the statement assigns value to the variable var and the run goes on
Assign(var, value, next) ==
    /\ pc' = next
    /\ mem' = DictPut(mem, var, value)
    /\ UNCHANGED <<script, raised, written, at_start, malformed>>

\* with open(..., 'w') as f: json.dump(...): the file fname has been written
Dumped(fname, next) ==
    /\ pc' = next
    /\ written' = written \cup {fname}
    /\ UNCHANGED <<script, mem, raised, at_start, malformed>>

\* the statements of create-aam-config.py with the aggregate written as
\* soon as it is loaded
AamNextWriteFirst(at) ==
    CASE at = "load_ibge" -> "load_sigpub"
      [] at = "load_sigpub" -> "write_sigpub"
      [] at = "write_sigpub" -> "existing_am_ids"
      [] at = "existing_am_ids" -> "new_configs"
      [] at = "new_configs" -> "extend"
      [] at = "extend" -> "write_added"
      [] at = "write_added" -> "done"

\* the statements of create-aam-config.py in the order of its module body
AamNext(at) ==
    CASE at = "load_ibge" -> "load_sigpub"
      [] at = "load_sigpub" -> "existing_am_ids"
      [] at = "existing_am_ids" -> "new_configs"
      [] at = "new_configs" -> "extend"
      [] at = "extend" -> "write_sigpub"
      [] at = "write_sigpub" -> "write_added"
      [] at = "write_added" -> "done"

\* config['territoryId'] raises KeyError on an AM entry without the key
AamExistingIdsKeyError(sigpub_data) ==
    \E i \in 1..Len(sigpub_data) :
        /\ Get(sigpub_data[i], "stateCode") = "AM"
        /\ "territoryId" \notin DOMAIN sigpub_data[i]

\* mun['id'] raises KeyError on a record without id, mun['nome'] on a record
\* that is not skipped and has no nome
AamNewConfigsKeyError(ibge_data, existing_am_ids) ==
    \E i \in 1..Len(ibge_data) :
        \/ "id" \notin DOMAIN ibge_data[i]
        \/ /\ Str(ToStr(ibge_data[i].id)) \notin existing_am_ids
           /\ "nome" \notin DOMAIN ibge_data[i]

StartAam ==
    /\ runs_on_batch < MaxRuns
    /\ Start("aam", "load_ibge")

AamLoadIbge ==
    /\ script = "aam" /\ pc = "load_ibge"
    /\ IF LoadRaises(am_ibge_file, "am_ibge") # "none"
       THEN Raise(LoadRaises(am_ibge_file, "am_ibge"))
       ELSE Assign("ibge_data", am_ibge_file.data, AamNext(pc))
    /\ UNCHANGED <<normVars, mergeVars, matchVars, validVars>>

AamLoadSigpub ==
    /\ script = "aam" /\ pc = "load_sigpub"
    /\ IF LoadRaises(sigpub_file, "sigpub") # "none"
       THEN Raise(LoadRaises(sigpub_file, "sigpub"))
       ELSE Assign("sigpub_data", sigpub_file.data, AamNext(pc))
    /\ UNCHANGED <<normVars, mergeVars, matchVars, validVars>>

AamExistingIds ==
    /\ script = "aam" /\ pc = "existing_am_ids"
    /\ IF AamExistingIdsKeyError(mem.sigpub_data)
       THEN Raise("KeyError")
       ELSE Assign("existing_am_ids", ExistingIds(mem.sigpub_data, "AM"), AamNext(pc))
    /\ UNCHANGED <<normVars, mergeVars, matchVars, validVars>>

AamBuildNewConfigs ==
    /\ script = "aam" /\ pc = "new_configs"
    /\ IF AamNewConfigsKeyError(mem.ibge_data, mem.existing_am_ids)
       THEN Raise("KeyError")
       ELSE Assign("new_configs",
                   AamNewConfigs(mem.ibge_data, mem.existing_am_ids, <<>>), AamNext(pc))
    /\ UNCHANGED <<normVars, mergeVars, matchVars, validVars>>

AamExtend ==
    /\ script = "aam" /\ pc = "extend"
    /\ Assign("sigpub_data", Extend(mem.sigpub_data, mem.new_configs), AamNext(pc))
    /\ UNCHANGED <<normVars, mergeVars, matchVars, validVars>>

AamWriteSigpub ==
    /\ script = "aam" /\ pc = "write_sigpub"
    /\ sigpub_file' = File(mem.sigpub_data)
    /\ Dumped("sigpub", AamNext(pc))
    /\ UNCHANGED <<am_ibge_file, mt_ibge_file, aam_added_file, amm_mt_file, runs_on_batch,
                   normVars, matchVars, validVars>>

AamWriteAdded ==
    /\ script = "aam" /\ pc = "write_added"
    /\ aam_added_file' = File([total |-> Len(mem.new_configs),
                               municipalities |-> mem.new_configs])
    /\ Dumped("aam_added", AamNext(pc))
    /\ runs_on_batch' = runs_on_batch + 1
    /\ UNCHANGED <<am_ibge_file, mt_ibge_file, sigpub_file, amm_mt_file,
                   normVars, matchVars, validVars>>

\* the statements of create-domsc-config.py in the order of its module body
DomscNext(at) ==
    CASE at = "load_brasil" -> "municipios_sc"
      [] at = "municipios_sc" -> "municipios_sc_dict"
      [] at = "municipios_sc_dict" -> "load_prefeituras"
      [] at = "load_prefeituras" -> "match"
      [] at = "match" -> "write_mapped"
      [] at = "write_mapped" -> "domsc_config"
      [] at = "domsc_config" -> "write_config"
      [] at = "write_config" -> "done"

\* m['codigo_uf'] raises KeyError on a record without the key
OfStateKeyError(municipios_brasil) ==
    \E i \in 1..Len(municipios_brasil) : "codigo_uf" \notin DOMAIN municipios_brasil[i]

\* m['nome'] raises KeyError on a record without the key
IndexKeyError(municipios) ==
    \E i \in 1..Len(municipios) : "nome" \notin DOMAIN municipios[i]

\* the record a listed name is matched to lacks a key the loop reads
DomscMatchKeyError(prefeituras_domsc, municipios_sc_dict) ==
    \E i \in 1..Len(prefeituras_domsc) :
        LET nome_norm == NormalizeFold(prefeituras_domsc[i])
        IN  /\ nome_norm \in DOMAIN municipios_sc_dict
            /\ ~({"codigo_ibge", "latitude", "longitude"}
                    \subseteq DOMAIN municipios_sc_dict[nome_norm])

StartDomsc == Start("domsc", "load_brasil")

DomscLoadBrasil ==
    /\ script = "domsc" /\ pc = "load_brasil"
    /\ IF LoadRaises(municipios_brasil_file, "municipios_brasil") # "none"
       THEN Raise(LoadRaises(municipios_brasil_file, "municipios_brasil"))
       ELSE Assign("municipios_brasil", municipios_brasil_file.data, DomscNext(pc))
    /\ UNCHANGED <<normVars, mergeVars, matchVars, validVars>>

DomscFilter ==
    /\ script = "domsc" /\ pc = "municipios_sc"
    /\ IF OfStateKeyError(mem.municipios_brasil)
       THEN Raise("KeyError")
       ELSE Assign("municipios_sc", OfState(mem.municipios_brasil, 42), DomscNext(pc))
    /\ UNCHANGED <<normVars, mergeVars, matchVars, validVars>>

DomscIndex ==
    /\ script = "domsc" /\ pc = "municipios_sc_dict"
    /\ IF IndexKeyError(mem.municipios_sc)
       THEN Raise("KeyError")
       ELSE Assign("municipios_sc_dict", IndexByNormFold(mem.municipios_sc, EmptyDict),
                   DomscNext(pc))
    /\ UNCHANGED <<normVars, mergeVars, matchVars, validVars>>

DomscLoadPrefeituras ==
    /\ script = "domsc" /\ pc = "load_prefeituras"
    /\ IF LoadRaises(domsc_raw_file, "domsc_raw") # "none"
       THEN Raise(LoadRaises(domsc_raw_file, "domsc_raw"))
       ELSE Assign("prefeituras_domsc", domsc_raw_file.data, DomscNext(pc))
    /\ UNCHANGED <<normVars, mergeVars, matchVars, validVars>>

\* the matching loop and the report it prints of the names not mapped
DomscMatchStep ==
    /\ script = "domsc" /\ pc = "match"
    /\ IF DomscMatchKeyError(mem.prefeituras_domsc, mem.municipios_sc_dict)
       THEN /\ Raise("KeyError")
            /\ UNCHANGED domsc_unmatched
       ELSE LET report == DomscMatch(mem.prefeituras_domsc, mem.municipios_sc_dict,
                                     <<>>, <<>>)
            IN  /\ Assign("matched", report.matched, DomscNext(pc))
                /\ domsc_unmatched' = report.unmatched
    /\ UNCHANGED <<municipios_brasil_file, agm_raw_file, agm_unmatched, agm_out_file,
                   domsc_raw_file, domsc_mapped_file, domsc_out_file,
                   ba_ibge_file, ba_raw_file, ba_not_found, ba_out_file,
                   normVars, mergeVars, validVars>>

DomscWriteMapped ==
    /\ script = "domsc" /\ pc = "write_mapped"
    /\ domsc_mapped_file' = File(mem.matched)
    /\ Dumped("domsc_mapped", DomscNext(pc))
    /\ UNCHANGED <<municipios_brasil_file, agm_raw_file, agm_unmatched, agm_out_file,
                   domsc_raw_file, domsc_unmatched, domsc_out_file,
                   ba_ibge_file, ba_raw_file, ba_not_found, ba_out_file,
                   normVars, mergeVars, validVars>>

DomscSynthesize ==
    /\ script = "domsc" /\ pc = "domsc_config"
    /\ Assign("domsc_config", DomscConfig(mem.matched), DomscNext(pc))
    /\ UNCHANGED <<normVars, mergeVars, matchVars, validVars>>

DomscWriteConfig ==
    /\ script = "domsc" /\ pc = "write_config"
    /\ domsc_out_file' = File(mem.domsc_config)
    /\ Dumped("domsc_out", DomscNext(pc))
    /\ UNCHANGED <<municipios_brasil_file, agm_raw_file, agm_unmatched, agm_out_file,
                   domsc_raw_file, domsc_unmatched, domsc_mapped_file,
                   ba_ibge_file, ba_raw_file, ba_not_found, ba_out_file,
                   normVars, mergeVars, validVars>>

(***************************************************************************)
(* The files on disk when a run starts: an input may be absent, may not    *)
(* be JSON, or may hold a record without a key the script reads.           *)
(***************************************************************************)
RunBatches ==
    SeqsUpTo({IbgeRecord(i) : i \in AmIds}
             \cup {Without(IbgeRecord(1300029), "id"),
                   Without(IbgeRecord(1300029), "nome")}, MaxBatch)

RunAggregates ==
    {a \in SeqsUpTo(ExistingEntries
                    \cup {Without(SigpubEntry("AM", <<"a", "m">>, 1300060,
                                              "https://www.diariomunicipal.com.br/aam/"),
                                  "territoryId")}, MaxAgg) :
        CoverageExclusive(SelectSeq(a, LAMBDA c : "territoryId" \in DOMAIN c))}

RunRegistries ==
    SeqsUpTo({Municipio(4200051, <<"A_acute", "a">>, 42),
              Municipio(4200101, <<"A", "-", "a">>, 42),
              Municipio(5200050, <<"A_acute", "a">>, 52),
              Without(Municipio(4200051, <<"A_acute", "a">>, 42), "codigo_uf"),
              Without(Municipio(4200101, <<"A", "-", "a">>, 42), "nome"),
              Without(Municipio(4200051, <<"A_acute", "a">>, 42), "latitude")}, MaxReg)

\* at most one of the two inputs is not JSON, and that one is on disk
OneMalformed(fname1, file1, fname2, file2) ==
    \/ malformed = {}
    \/ malformed = {fname1} /\ file1.exists
    \/ malformed = {fname2} /\ file2.exists

InitRunAam ==
    /\ am_ibge_file \in {AbsentList} \cup {File(b) : b \in RunBatches}
    /\ sigpub_file \in {AbsentList} \cup {File(a) : a \in RunAggregates}
    /\ malformed \in SUBSET {"am_ibge", "sigpub"}
    /\ OneMalformed("am_ibge", am_ibge_file, "sigpub", sigpub_file)
    /\ mt_ibge_file = AbsentList
    /\ aam_added_file = AbsentReport
    /\ amm_mt_file = AbsentReport
    /\ runs_on_batch = 0
    /\ NormIdle
    /\ NoMatchFiles
    /\ ValidatorIdle
    /\ RunNotStarted

InitRunDomsc ==
    /\ municipios_brasil_file \in {AbsentList} \cup {File(r) : r \in RunRegistries}
    /\ domsc_raw_file \in {AbsentList} \cup {File(l) : l \in SeqsUpTo(SourceNames, MaxSrc)}
    /\ malformed \in SUBSET {"municipios_brasil", "domsc_raw"}
    /\ OneMalformed("municipios_brasil", municipios_brasil_file, "domsc_raw", domsc_raw_file)
    /\ domsc_unmatched = <<>>
    /\ domsc_mapped_file = AbsentList
    /\ domsc_out_file = AbsentList
    /\ NoAgmFiles
    /\ NoBaFiles
    /\ NormIdle
    /\ NoMergeFiles
    /\ ValidatorIdle
    /\ RunNotStarted

InitRun == InitRunAam \/ InitRunDomsc

NextRun ==
    \/ StartAam \/ AamLoadIbge \/ AamLoadSigpub \/ AamExistingIds \/ AamBuildNewConfigs
    \/ AamExtend \/ AamWriteSigpub \/ AamWriteAdded
    \/ StartDomsc \/ DomscLoadBrasil \/ DomscFilter \/ DomscIndex \/ DomscLoadPrefeituras
    \/ DomscMatchStep \/ DomscWriteMapped \/ DomscSynthesize \/ DomscWriteConfig

SpecRun == InitRun /\ [][NextRun]_vars

(***************************************************************************)
(* Properties of the merge                                                 *)
(***************************************************************************)
\* a step of create-aam-config.py
IsAamRun == runs_on_batch' = runs_on_batch + 1

\* the entries create-aam-config.py appended: the aggregate's own entries carry startDate
AppendedByAam(agg) ==
    SelectSeq(agg, LAMBDA e : e.stateCode = "AM" /\ "startDate" \notin DOMAIN e)

\* C1: after any merge, no two entries of the aggregate share both stateCode
\* and territoryId, whatever the batch (a territory code may occur twice in it).
C1_CoverageExclusivity == sigpub_file.exists => CoverageExclusive(sigpub_file.data)

\* C2: merging the batch that was just merged appends nothing: the aggregate is
\* left as it was and the report of the second run counts no entry.
C2_MergeIdempotent ==
    [][(IsAamRun /\ runs_on_batch >= 1)
          => (sigpub_file'.data = sigpub_file.data /\ aam_added_file'.data.total = 0)]_vars

\* C2 happens: the batch was merged twice, and the first merge appended an entry
C2_Witness ==
    /\ runs_on_batch = 2
    /\ Len(AppendedByAam(sigpub_file.data)) >= 1
    /\ Len(sigpub_file.data) > Len(AppendedByAam(sigpub_file.data))

\* C3: a merge leaves the existing aggregate as an unchanged prefix, followed by
\* the entries of the batch that were not skipped, in the order of the batch.
C3_MonotonicAppend ==
    [][IsAamRun =>
        LET old == sigpub_file.data
            new == sigpub_file'.data
            batch == am_ibge_file.data
            covered == {old[j].territoryId : j \in {k \in 1..Len(old) : old[k].stateCode = "AM"}}
            freshIds == [i \in 1..Len(batch) |-> Str(ToStr(batch[i].id))]
            tail == SubSeq(new, Len(old) + 1, Len(new))
        IN  /\ Len(new) >= Len(old)
            /\ SubSeq(new, 1, Len(old)) = old
            /\ [i \in 1..Len(tail) |-> tail[i].territoryId]
                   = SelectSeq(freshIds, LAMBDA t : t \notin covered)
            /\ \A i \in 1..Len(tail) : tail[i].stateCode = "AM"]_vars

\* C3 happens: a merge into a non-empty aggregate appended two entries and skipped one
C3_Witness ==
    /\ runs_on_batch = 1
    /\ aam_added_file.exists
    /\ aam_added_file.data.total >= 1
    /\ aam_added_file.data.total < Len(am_ibge_file.data)
    /\ Len(sigpub_file.data) > aam_added_file.data.total

(***************************************************************************)
(* Properties of normalize_name                                            *)
(***************************************************************************)
\* C5: under the punctuation-stripping variant, two names that differ only in
\* that one has a space where the other has a hyphen or an apostrophe get the
\* same key.
C5_PunctVersusSpaceSameKey ==
    (stage = "keyed" /\ variant = "strip" /\ diff = {"punct"}) => key = okey

\* C6: two names that differ only by accent marks or by letter case get the
\* same key, under either variant of normalize_name.
C6_CaseAccentInsensitive ==
    (stage = "keyed" /\ diff # {} /\ diff \subseteq {"case", "accent"}) => key = okey

\* C6 happens: names that differ in case and in accents were keyed, to a key
\* that is not empty
C6_Witness ==
    /\ stage = "keyed"
    /\ diff = {"case", "accent"}
    /\ name # other
    /\ Len(key) >= 2

\* C7: normalizing a key gives the key back, under either variant.
C7_Idempotent == stage = "keyed" => rekey = key

\* C7 happens: a name that normalization changes (punctuation, spaces, case)
\* was keyed and the key normalized again
C7_Witness ==
    /\ stage = "keyed"
    /\ key # name
    /\ Len(key) >= 2
    /\ \E i \in 1..Len(name) : name[i] \in {"-", " "}

(***************************************************************************)
(* Properties of the matchers and the synthesizers                         *)
(***************************************************************************)
\* the positions of list whose entry satisfies Test
Positions(list, Test(_)) == {i \in 1..Len(list) : Test(list[i])}

\* the keys of the registry index of each matching script
AgmKeys == {NormalizeFold(m.nome) : m \in Range(OfState(municipios_brasil_file.data, 52))}
DomscKeys == {NormalizeFold(m.nome) : m \in Range(OfState(municipios_brasil_file.data, 42))}
BaKeys == {NormalizeStrip(m.nome) : m \in Range(ba_ibge_file.data)}

AgmNoKey(e) == NormalizeFold(e.nome) \notin AgmKeys
DomscNoKey(e) == NormalizeFold(e) \notin DomscKeys
BaNoKey(e) == NormalizeStrip(e.text) \notin BaKeys

\* the unmatched list holds the texts of the entries without a key in the
\* index, unchanged and in order; there is one emitted entry per entry with a
\* key, each made of the value of such an entry and of a registry record of
\* its key; no name in the emitted entries is the text of an unmatched entry
AgmExclusion ==
    LET src == agm_raw_file.data
        out == agm_out_file.data
    IN  agm_out_file.exists =>
          /\ agm_unmatched = [i \in 1..Len(SelectSeq(src, AgmNoKey)) |->
                                  SelectSeq(src, AgmNoKey)[i].nome]
          /\ Len(out) = Len(src) - Len(agm_unmatched)
          /\ \A c \in Range(out) :
                /\ \E e \in Range(src) :
                      /\ ~AgmNoKey(e)
                      /\ c.config.entityId = e.value
                      /\ NormalizeFold(c.name) = NormalizeFold(e.nome)
                /\ \A e \in Range(src) : AgmNoKey(e) => c.name # e.nome

DomscExclusion ==
    LET src == domsc_raw_file.data
        mapped == domsc_mapped_file.data
    IN  domsc_mapped_file.exists =>
          /\ domsc_unmatched = SelectSeq(src, DomscNoKey)
          /\ Len(mapped) = Len(src) - Len(domsc_unmatched)
          /\ \A m \in Range(mapped) : ~DomscNoKey(m.nome_domsc)
          /\ \A c \in Range(domsc_out_file.data) :
                \A e \in Range(src) :
                    DomscNoKey(e) => (c.name # e /\ c.config.entityName # e)

BaExclusion ==
    LET src == ba_raw_file.data.municipalities
        out == ba_out_file.data.municipalities
    IN  ba_out_file.exists =>
          /\ ba_not_found = [i \in 1..Len(SelectSeq(src, BaNoKey)) |->
                                 SelectSeq(src, BaNoKey)[i].text]
          /\ Len(out) = Len(src) - Len(ba_not_found)
          /\ ba_out_file.data.total = Len(out)
          /\ \A c \in Range(out) :
                /\ \E e \in Range(src) :
                      /\ ~BaNoKey(e)
                      /\ c.config.cityName = e.value
                      /\ NormalizeStrip(c.name) = NormalizeStrip(e.text)
                /\ \A e \in Range(src) : BaNoKey(e) => c.name # e.text

\* C4 (as amended): a source entry whose normalized key is not a key of the
\* registry index is placed, text unchanged, in the unmatched list and no
\* entry is derived from it: the emitted entries are those of the entries
\* found by key, and its name appears in none of them.
C4_MatcherExclusion == AgmExclusion /\ DomscExclusion /\ BaExclusion

\* C4 happens: a run matched one entry of the list and not the other
C4_Witness ==
    /\ agm_out_file.exists
    /\ Len(agm_unmatched) = 1
    /\ Len(agm_out_file.data) = 1

\* C4 as stated: besides, the addressing value of an unmatched entry never
\* appears in the emitted configuration.
C4_UnmatchedValueNeverEmitted ==
    /\ C4_MatcherExclusion
    /\ agm_out_file.exists =>
          \A c \in Range(agm_out_file.data) : \A e \in Range(agm_raw_file.data) :
              AgmNoKey(e) => c.config.entityId # e.value
    /\ ba_out_file.exists =>
          \A c \in Range(ba_out_file.data.municipalities) :
              \A e \in Range(ba_raw_file.data.municipalities) :
                  BaNoKey(e) => c.config.cityName # e.value

\* no two entries of the list have the same id
IdsUnique(list) == \A i, j \in 1..Len(list) : list[i].id = list[j].id => i = j

\* C8: no two entries of an emitted collection have the same id, whatever the
\* registry and the source list.
C8_IdsUnique ==
    /\ IdsUnique(agm_out_file.data)
    /\ IdsUnique(domsc_out_file.data)
    /\ IdsUnique(ba_out_file.data.municipalities)

\* the addressing field a spiderType selects
AddressingFields == {"entityId", "cityName", "entityName"}

AddressingFieldOf(spiderType) ==
    CASE spiderType = "sigpub" -> "entityId"
      [] spiderType = "amm-mt" -> "cityName"
      [] spiderType = "diario-ba" -> "cityName"
      [] spiderType = "dom-sc" -> "entityName"
      [] OTHER -> "none"

\* every entry the scripts have written
Emitted ==
    Range(sigpub_file.data) \cup Range(aam_added_file.data.municipalities)
    \cup Range(amm_mt_file.data.municipalities) \cup Range(agm_out_file.data)
    \cup Range(domsc_out_file.data) \cup Range(ba_out_file.data.municipalities)

\* C9: the config of every emitted entry has url and exactly one addressing
\* field, the one its spiderType selects; an entry whose addressing value is
\* not known yet has the field all the same, holding the placeholder "0".
C9_OneAddressingField ==
    /\ \A e \in Emitted :
          /\ "url" \in DOMAIN e.config
          /\ DOMAIN e.config \cap AddressingFields = {AddressingFieldOf(e.spiderType)}
    /\ \A e \in Range(aam_added_file.data.municipalities) :
          "entityId" \in DOMAIN e.config /\ e.config.entityId = "0"

\* C9 happens: create-aam-config.py appended an entry with the placeholder
C9_Witness ==
    /\ aam_added_file.exists
    /\ aam_added_file.data.total >= 1
    /\ Len(sigpub_file.data) > aam_added_file.data.total

(***************************************************************************)
(* Properties of the validator                                             *)
(***************************************************************************)
\* the errors reported for the entry at position idx (from 0)
ErrorsOf(idx) == SelectSeq(errors.list, LAMBDA e : e.idx = idx)

\* the entry passes every check of the validator other than those on territoryId
ValidButForTerritoryId(config) ==
    /\ Range(required_fields) \ {"territoryId"} \subseteq DOMAIN config
    /\ config.spiderType = "sigpub"
    /\ "type" \in DOMAIN config.config /\ config.config.type = "sigpub"
    /\ "url" \in DOMAIN config.config

\* a string of exactly 7 digits
IsSevenDigits(v) ==
    /\ IsStr(v)
    /\ Len(v.str) = 7
    /\ \A k \in 1..Len(v.str) : v.str[k] \in Range(DigitChars)

TerritoryIdReported(idx) ==
    \E k \in 1..Len(errors.list) :
        errors.list[k].idx = idx /\ errors.list[k].kind = "territoryId invalido"

\* C11: an entry that has a territoryId gets a territoryId error exactly when
\* the value is not a string of exactly 7 digits (a 7-character string with a
\* character that is no digit, a string of 6 or 8 digits and a value that is
\* no string are all reported).
C11_TerritoryIdSevenDigits ==
    errors.reported =>
        \A i \in 1..Len(sigpub_file.data) :
            "territoryId" \in DOMAIN sigpub_file.data[i] =>
                (TerritoryIdReported(i - 1) <=> ~IsSevenDigits(sigpub_file.data[i].territoryId))

(***************************************************************************)
(* The order of loading, computing and writing in a run                    *)
(***************************************************************************)
\* the statements that read an input file, those that compute in memory,
\* and the variables a script holds when all it has done is load
LoadSteps == {"load_ibge", "load_sigpub", "load_brasil", "load_prefeituras"}
ComputeSteps == {"existing_am_ids", "new_configs", "extend",
                 "municipios_sc", "municipios_sc_dict", "match", "domsc_config"}
LoadedNames == {"ibge_data", "sigpub_data", "municipios_brasil", "prefeituras_domsc"}
DomscStepsBeforeFirstWrite ==
    {"load_brasil", "municipios_sc", "municipios_sc_dict", "load_prefeituras", "match"}
InputErrors == {"FileNotFoundError", "JSONDecodeError", "KeyError"}

NothingWritten == written = {} /\ OutputFiles = at_start

====
